---- MODULE Spec2Model ----
(***************************************************************************)
(* A model of python/beancashd.py: the configuration reader                *)
(* (Beancashd._parse_config), the client constructor (Beancashd.__init__)  *)
(* and the JSON-RPC call path (Beancashd._rpc_call).                       *)
(*                                                                         *)
(* Python strings are sequences of one-character strings, so that strip,   *)
(* split, lower and slicing are computed character by character.  An       *)
(* OrderedDict is a sequence of <<key, value>> pairs with distinct keys,   *)
(* in insertion order.                                                     *)
(***************************************************************************)
EXTENDS Integers, Sequences, FiniteSets

VARIABLES
    disk,          \* the configuration file on disk: [readable, lines]
    config_cache,  \* type(self)._config_cache: filename -> OrderedDict
    cache_by,      \* history: filename -> the call that memoized the entry
    last,          \* the last _parse_config call and the mapping it returned
    conf,          \* the lines of the file being read by the parsing loop
    lineno,        \* how many lines the loop has consumed
    config,        \* the OrderedDict the loop has built so far
    line_event,    \* what the loop did with the line it consumed last
    client,        \* the Beancashd instance under study, once constructed
    event          \* the last constructor or _rpc_call and how it ended

rvars == <<disk, config_cache, cache_by, last>>
pvars == <<conf, lineno, config, line_event>>
cvars == <<client, event>>
vars == <<disk, config_cache, cache_by, last, conf, lineno, config, line_event, client, event>>

(***************************************************************************)
(* Bounds of the model.                                                    *)
(***************************************************************************)
MaxLines == 2
MaxCalls == 3

(***************************************************************************)
(* Python string operations.                                               *)
(***************************************************************************)
Whitespace == {" ", "\t", "\n"}
Quotes == {"\"", "'"}

UpperCase == <<"A","B","C","D","E","F","G","H","I","J","K","L","M",
               "N","O","P","Q","R","S","T","U","V","W","X","Y","Z">>
LowerCase == <<"a","b","c","d","e","f","g","h","i","j","k","l","m",
               "n","o","p","q","r","s","t","u","v","w","x","y","z">>

LowerChar(c) ==
    IF \E i \in 1..26 : UpperCase[i] = c
    THEN LowerCase[CHOOSE i \in 1..26 : UpperCase[i] = c]
    ELSE c

\* str.lower()
Lower(s) == [i \in 1..Len(s) |-> LowerChar(s[i])]

\* str.find(ch) + 1: the position of the first ch, 0 when there is none
Find(s, ch) ==
    IF \E i \in 1..Len(s) : s[i] = ch
    THEN CHOOSE i \in 1..Len(s) : s[i] = ch /\ \A j \in 1..(i-1) : s[j] # ch
    ELSE 0

RECURSIVE LStrip(_)
LStrip(s) == IF s # <<>> /\ Head(s) \in Whitespace THEN LStrip(Tail(s)) ELSE s

RECURSIVE RStrip(_)
RStrip(s) ==
    IF s # <<>> /\ s[Len(s)] \in Whitespace THEN RStrip(SubSeq(s, 1, Len(s)-1)) ELSE s

Strip(s) == LStrip(RStrip(s))

\* str.split(sep): the pieces between the occurrences of sep, all of them
RECURSIVE Split(_, _)
Split(s, sep) ==
    IF Find(s, sep) = 0 THEN <<s>>
    ELSE <<SubSeq(s, 1, Find(s, sep) - 1)>> \o Split(SubSeq(s, Find(s, sep) + 1, Len(s)), sep)

\* line = line[:comment] when a '#' is found
StripComment(line) ==
    IF Find(line, "#") # 0 THEN SubSeq(line, 1, Find(line, "#") - 1) ELSE line

(***************************************************************************)
(* OrderedDict operations.                                                 *)
(***************************************************************************)
Keys(d) == {d[i][1] : i \in 1..Len(d)}
Items(d) == {d[i] : i \in 1..Len(d)}
HasKey(d, k) == k \in Keys(d)
Get(d, k) == d[CHOOSE i \in 1..Len(d) : d[i][1] = k][2]
GetDefault(d, k, default) == IF HasKey(d, k) THEN Get(d, k) ELSE default

\* d[k] = v: an existing key keeps its place, a new key goes last
DictSet(d, k, v) ==
    IF HasKey(d, k)
    THEN [i \in 1..Len(d) |-> IF d[i][1] = k THEN <<k, v>> ELSE d[i]]
    ELSE Append(d, <<k, v>>)

\* d.update(options)
RECURSIVE Update(_, _)
Update(d, options) ==
    IF options = <<>> THEN d
    ELSE Update(DictSet(d, Head(options)[1], Head(options)[2]), Tail(options))

(***************************************************************************)
(* One iteration of the loop over the file's lines.  kind is what happened *)
(* to the line: "blank" (continue), "ValueError" (the unpacking of         *)
(* line.split('=') failed: warning, continue), "set" (config[var] = val)   *)
(* or "IndexError" (val[0] or val[1] does not exist: the exception leaves  *)
(* the loop).                                                              *)
(***************************************************************************)
LineResult(kind, cfg, var, val, stored) ==
    [kind |-> kind, config |-> cfg, var |-> var, val |-> val, stored |-> stored]

\* the test of line 127 and the slice of line 128, on a value that has val[0]
StripQuotes(val) ==
    IF val[1] \in Quotes /\ val[2] \in Quotes THEN SubSeq(val, 2, Len(val) - 1) ELSE val

\* whether evaluating line 127 raises IndexError
QuoteTestRaises(val) ==
    \/ Len(val) = 0
    \/ val[1] \in Quotes /\ Len(val) < 2

ParseLine(cfg, line) ==
    LET stripped == Strip(StripComment(line))
        parts == Split(stripped, "=")
    IN  IF stripped = <<>> THEN LineResult("blank", cfg, <<>>, <<>>, <<>>)
        ELSE IF Len(parts) # 2 THEN LineResult("ValueError", cfg, <<>>, <<>>, <<>>)
        ELSE LET var == Lower(RStrip(parts[1]))
                 val == LStrip(parts[2])
             IN  IF QuoteTestRaises(val) THEN LineResult("IndexError", cfg, var, val, <<>>)
                 ELSE LineResult("set", DictSet(cfg, var, StripQuotes(val)), var, val, StripQuotes(val))

\* the whole loop: an IndexError ends it, and the except clause of line 134
\* leaves config as the lines before had built it
RECURSIVE ReadLines(_, _)
ReadLines(cfg, lines) ==
    IF lines = <<>> THEN cfg
    ELSE LET r == ParseLine(cfg, Head(lines))
         IN  IF r.kind = "IndexError" THEN cfg ELSE ReadLines(r.config, Tail(lines))

\* lines 107-135: open() failing is caught too, and leaves config empty
ReadConfig(file) == IF file.readable THEN ReadLines(<<>>, file.lines) ELSE <<>>

(***************************************************************************)
(* The parsing loop, one line per step (lines 110-130).                    *)
(***************************************************************************)
\* sample lines of a configuration file, written without the line terminator
\* that strip() removes
Line_a1 == <<"a", "=", "1">>                               \* a=1
Line_A2 == <<" ", "A", " ", "=", " ", "2">>                \*  A = 2
Line_comment == <<"#", "a", "=", "1">>                     \* #a=1
Line_noeq == <<"a", "b">>                                  \* ab
Line_twoeq == <<"a", "=", "1", "=", "2">>                  \* a=1=2
Line_trailing == <<"c", "=", "1", " ", "#", "=">>          \* c=1 #=
Line_empty == <<"b", "=">>                                 \* b=
Line_lonequote == <<"b", "=", "\"">>                       \* b="
Line_doubled == <<"b", "=", "\"", "\"", "h", "\"", "\"">>  \* b=""h""
Line_quoted == <<"b", "=", "\"", "h", "\"">>               \* b="h"
Line_emptyquotes == <<"b", "=", "'", "'">>                 \* b=''
Line_mixed == <<"b", "=", "\"", "'", "h">>                 \* b="'h

LinePool ==
    {Line_a1, Line_A2, Line_comment, Line_noeq, Line_twoeq, Line_trailing, Line_empty,
     Line_lonequote, Line_doubled, Line_quoted, Line_emptyquotes, Line_mixed}

\* the files of at most n lines over a pool of lines
FilesOver(pool, n) == UNION {[1..k -> pool] : k \in 0..n}

NoFile == [readable |-> FALSE, lines |-> <<>>]
NoCall ==
    [op |-> "none", filename |-> "", no_cache |-> FALSE, options |-> <<>>, config |-> <<>>,
     src |-> NoFile, hit |-> FALSE, mutated |-> FALSE, after_refresh |-> FALSE]
NoTransport == [connect |-> "none", response |-> "none", status |-> 0, body |-> "none",
                type |-> "none", members |-> <<>>]
NoEvent ==
    [op |-> "none", rpc_id |-> 0, outcome |-> "none", value |-> "", config |-> <<>>,
     resolves |-> FALSE, transport |-> NoTransport]
NoClient ==
    [exists |-> FALSE, rpc_auth |-> <<>>, rpc_host |-> <<>>, rpc_port |-> 0, timeout |-> 0,
     ssl |-> FALSE, rpc_id |-> 0, issued |-> <<>>]

ResolverIdle ==
    /\ disk = NoFile
    /\ config_cache = <<>>
    /\ cache_by = <<>>
    /\ last = NoCall

LoopIdle ==
    /\ conf = <<>>
    /\ lineno = 0
    /\ config = <<>>
    /\ line_event = LineResult("open", <<>>, <<>>, <<>>, <<>>)

ClientIdle ==
    /\ client = NoClient
    /\ event = NoEvent

InitParse ==
    /\ conf \in FilesOver(LinePool, MaxLines)
    /\ lineno = 0
    /\ config = <<>>
    /\ line_event = LineResult("open", <<>>, <<>>, <<>>, <<>>)
    /\ ResolverIdle
    /\ ClientIdle

\* the loop has left the file: every line consumed, or an exception raised
ParseEnded == line_event.kind = "IndexError" \/ lineno = Len(conf)

ReadLine ==
    /\ ~ParseEnded
    /\ lineno' = lineno + 1
    /\ line_event' = ParseLine(config, conf[lineno + 1])
    /\ config' = ParseLine(config, conf[lineno + 1]).config
    /\ UNCHANGED <<conf, rvars, cvars>>

NextParse == ReadLine

SpecParse == InitParse /\ [][NextParse]_vars

\* the loop, step by step, builds what ReadLines computes
LoopAgreesWithReadLines == ParseEnded => config = ReadLines(<<>>, conf)

(***************************************************************************)
(* C8.  Parsing is best-effort per line: a line without exactly one '=' is *)
(* skipped and no line aborts the parse of the lines after it, so when the *)
(* loop has ended every well-formed key=value line of the file has its key *)
(* in the mapping, wherever it sits relative to the other lines.           *)
(***************************************************************************)
ExactlyOneEq(line) == Len(Split(Strip(StripComment(line)), "=")) = 2
KeyOf(line) == Lower(RStrip(Split(Strip(StripComment(line)), "=")[1]))
ValueOf(line) == LStrip(Split(Strip(StripComment(line)), "=")[2])
\* the plainest well-formed lines: key=value with an unquoted value, as a=1 is
WellFormed(line) ==
    /\ ExactlyOneEq(line)
    /\ KeyOf(line) # <<>>
    /\ ValueOf(line) # <<>>
    /\ ValueOf(line)[1] \notin Quotes

C8_BestEffortPerLine ==
    ParseEnded =>
        \A i \in 1..Len(conf) : WellFormed(conf[i]) => HasKey(config, KeyOf(conf[i]))

(***************************************************************************)
(* C10.  Every value of a line with exactly one '=' is stored: with one    *)
(* leading and one trailing character removed when its first two           *)
(* characters are both quote characters, and unchanged otherwise.          *)
(***************************************************************************)
FirstTwoAreQuotes(val) == Len(val) >= 2 /\ val[1] \in Quotes /\ val[2] \in Quotes

C10_QuoteStripping ==
    (lineno > 0 /\ ExactlyOneEq(conf[lineno])) =>
        /\ line_event.kind = "set"
        /\ line_event.stored =
              IF FirstTwoAreQuotes(ValueOf(conf[lineno]))
              THEN SubSeq(ValueOf(conf[lineno]), 2, Len(ValueOf(conf[lineno])) - 1)
              ELSE ValueOf(conf[lineno])
        /\ Get(config, KeyOf(conf[lineno])) = line_event.stored

(***************************************************************************)
(* _parse_config (lines 81-146) and its callers.                           *)
(***************************************************************************)
DEFAULT_CONFIG_FILENAME == "~/.BitBean/Beancash.conf"
HomeConfigPath == "/home/user/.BitBean/Beancash.conf"

\* the names a caller passes: two names of the one file on disk
Filenames == {DEFAULT_CONFIG_FILENAME, HomeConfigPath}

\* os.path.expanduser
ExpandUser(filename) ==
    IF filename = DEFAULT_CONFIG_FILENAME THEN HomeConfigPath ELSE filename

\* open(os.path.expanduser(filename)): every name leads to the one file
Open(filename) == IF ExpandUser(filename) = HomeConfigPath THEN disk ELSE NoFile

\* a dict with key f set to v
Put(c, f, v) == [x \in DOMAIN c \cup {f} |-> IF x = f THEN v ELSE c[x]]

\* mutant: the mapping is memoized after the options were merged into it
ParseConfig_MemoizesAfterUpdate(filename, no_cache, options) ==
    IF filename \in DOMAIN config_cache /\ ~no_cache
    THEN [config |-> Update(config_cache[filename], options), cache |-> config_cache,
          hit |-> TRUE]
    ELSE LET read == ReadConfig(Open(filename))
         IN  [config |-> Update(read, options),
              cache |-> IF read # <<>> /\ ~no_cache
                        THEN Put(config_cache, filename, Update(read, options))
                        ELSE config_cache,
              hit |-> FALSE]

\* mutant: config.update(options) sits in the else branch, after the memoization
ParseConfig_UpdateOnMissOnly(filename, no_cache, options) ==
    IF filename \in DOMAIN config_cache /\ ~no_cache
    THEN [config |-> config_cache[filename], cache |-> config_cache,
          hit |-> TRUE]
    ELSE LET read == ReadConfig(Open(filename))
         IN  [config |-> Update(read, options),
              cache |-> IF read # <<>> /\ ~no_cache
                        THEN Put(config_cache, filename, read)
                        ELSE config_cache,
              hit |-> FALSE]

\* mutant: a no_cache read memoizes what it read ("if config:")
ParseConfig_RefreshMemoizes(filename, no_cache, options) ==
    IF filename \in DOMAIN config_cache /\ ~no_cache
    THEN [config |-> Update(config_cache[filename], options), cache |-> config_cache,
          hit |-> TRUE]
    ELSE LET read == ReadConfig(Open(filename))
         IN  [config |-> Update(read, options),
              cache |-> IF read # <<>>
                        THEN Put(config_cache, filename, read)
                        ELSE config_cache,
              hit |-> FALSE]

\* _parse_config(filename, no_cache, **options): the mapping returned, the cache
\* it leaves, and whether the memoized copy was used.  The copies of lines 103
\* and 143 make the returned mapping and the memoized one distinct objects.
ParseConfig(filename, no_cache, options) ==
    IF filename \in DOMAIN config_cache /\ ~no_cache
    THEN [config |-> Update(config_cache[filename], options), cache |-> config_cache,
          hit |-> TRUE]
    ELSE LET read == ReadConfig(Open(filename))
         IN  [config |-> Update(read, options),
              cache |-> IF read # <<>> /\ ~no_cache
                        THEN Put(config_cache, filename, read)
                        ELSE config_cache,
              hit |-> FALSE]

\* the lines of the files the resolver is run on, and the options given to it
File(lines) == [readable |-> TRUE, lines |-> lines]
DiskContents ==
    {NoFile, File(<<>>), File(<<Line_a1>>), File(<<Line_A2, Line_doubled>>)}

Options_none == <<>>
Options_a == << <<<<"a">>, <<"9">>>> >>
Options_Ab == << <<<<"A">>, <<"8">>>>, <<<<"b">>, <<"7">>>> >>
OptionsPool == {Options_none, Options_a, Options_Ab}

Init ==
    /\ disk \in DiskContents
    /\ config_cache = <<>>
    /\ cache_by = <<>>
    /\ last = NoCall
    /\ LoopIdle
    /\ ClientIdle

\* what a call of _parse_config does to the cache.  Beside the cache, the step
\* records the call and what it returned (last), and for a memoizing call the
\* file contents and the options it had (cache_by).
Resolve(filename, no_cache, options) ==
    LET r == ParseConfig(filename, no_cache, options)
    IN  /\ config_cache' = r.cache
        /\ cache_by' = IF r.cache # config_cache
                       THEN Put(cache_by, filename, [src |-> disk, options |-> options])
                       ELSE cache_by
        /\ last' = [op |-> "_parse_config", filename |-> filename, no_cache |-> no_cache,
                    options |-> options, config |-> r.config,
                    src |-> IF r.hit THEN cache_by[filename].src ELSE disk,
                    hit |-> r.hit, mutated |-> FALSE,
                    after_refresh |-> last.op # "none" /\ last.no_cache /\ last.filename = filename]
        /\ disk' = disk

\* a caller resolves the configuration
ParseConfigCall(filename, no_cache, options) ==
    /\ Resolve(filename, no_cache, options)
    /\ UNCHANGED <<pvars, cvars>>

\* the file is rewritten, removed or made unreadable by someone else
WriteFile(content) ==
    /\ content # disk
    /\ disk' = content
    /\ UNCHANGED <<config_cache, cache_by, last, pvars, cvars>>

\* the caller changes the mapping it was handed: its own copy
CallerUpdates(k, v) ==
    /\ last.op # "none"
    /\ ~last.mutated
    /\ last' = [last EXCEPT !.config = DictSet(@, k, v), !.mutated = TRUE]
    /\ UNCHANGED <<disk, config_cache, cache_by, pvars, cvars>>

Next ==
    \/ \E f \in Filenames, nc \in BOOLEAN, o \in OptionsPool : ParseConfigCall(f, nc, o)
    \/ \E c \in DiskContents : WriteFile(c)
    \/ CallerUpdates(<<"z">>, <<"0">>)

Spec == Init /\ [][Next]_vars

(***************************************************************************)
(* C2.  Every override key maps to its override value in the mapping       *)
(* returned, whatever the file says for that key, and overrides are never  *)
(* memoized: a memoized entry is what the file parsed to when it was       *)
(* memoized, and every entry of a returned mapping is an override of that  *)
(* very call or an entry parsed from the file.                             *)
(***************************************************************************)
Returned == last.op # "none" /\ ~last.mutated

C2_OverridesWinAndAreNeverCached ==
    /\ \A f \in DOMAIN config_cache : config_cache[f] = ReadConfig(cache_by[f].src)
    /\ Returned =>
          /\ \A o \in Items(last.options) : HasKey(last.config, o[1]) /\ Get(last.config, o[1]) = o[2]
          /\ \A e \in Items(last.config) :
                e \in Items(last.options) \/ e \in Items(ReadConfig(last.src))

\* a cache hit on an entry memoized by a call with other overrides, none of
\* which shows in the mapping returned
C2_Witness ==
    /\ Returned
    /\ last.hit
    /\ cache_by[last.filename].options # <<>>
    /\ last.options # <<>>
    /\ Keys(cache_by[last.filename].options) \cap Keys(last.options) = {}
    /\ \A o \in Items(cache_by[last.filename].options) : o \notin Items(last.config)

(***************************************************************************)
(* C6.  Parsing is idempotent: with the file as it was when the previous   *)
(* resolution (one without no_cache) read or had memoized it, and the same *)
(* filename and overrides, the next resolution returns the identical       *)
(* mapping, with no_cache or without; without it, when the file parsed to  *)
(* something, it is served from the cache.                                 *)
(***************************************************************************)
C6_ParsingIsIdempotent ==
    [][(/\ last.op # "none" /\ ~last.mutated /\ ~last.no_cache
        /\ last.src = disk
        /\ disk' = disk
        /\ ~last'.mutated
        /\ last'.filename = last.filename
        /\ last'.options = last.options)
       => /\ last'.config = last.config
          /\ (~last'.no_cache /\ ReadConfig(disk) # <<>>) => last'.hit]_vars

\* a no_cache resolution of an unchanged, memoized file, with overrides, that
\* returned what the memoized entry gives
C6_Witness ==
    /\ Returned
    /\ last.no_cache
    /\ last.filename \in DOMAIN config_cache
    /\ cache_by[last.filename].src = disk
    /\ last.src = disk
    /\ last.options # <<>>
    /\ last.config = Update(config_cache[last.filename], last.options)

(***************************************************************************)
(* C7 as stated.  A memoized entry never changes across resolutions        *)
(* without no_cache, and after a resolution with no_cache the next         *)
(* resolution of that filename without no_cache no longer returns the      *)
(* entry memoized before, when the file has changed.                       *)
(***************************************************************************)
CacheEntriesKept ==
    \A f \in DOMAIN config_cache : f \in DOMAIN config_cache' /\ config_cache'[f] = config_cache[f]

\* this step is a resolution without no_cache that follows one with no_cache
\* of the same filename, memoized before, whose file now parses differently
PlainAfterRefreshOfChangedFile ==
    /\ last.op # "none" /\ last.no_cache
    /\ ~last'.no_cache
    /\ last'.filename = last.filename
    /\ last.filename \in DOMAIN config_cache
    /\ ReadConfig(disk) # config_cache[last.filename]

C7_RefreshInvalidates ==
    [][/\ (last'.no_cache = FALSE) => CacheEntriesKept
       /\ PlainAfterRefreshOfChangedFile =>
             last'.config # Update(config_cache[last.filename], last'.options)]_vars

(***************************************************************************)
(* C7 as amended.  A memoized entry never changes at all, with no_cache or *)
(* without: a resolution with no_cache reads the file for that call only   *)
(* and stores nothing, so the next resolution without no_cache still       *)
(* returns the entry memoized before, even when the file has changed.      *)
(***************************************************************************)
C7_RefreshBypassesOnly ==
    [][/\ CacheEntriesKept
       /\ PlainAfterRefreshOfChangedFile =>
             last'.config = Update(config_cache[last.filename], last'.options)]_vars

\* a cache hit right after a no_cache resolution of the same filename, on an
\* entry that is not what the file parses to
C7_Witness ==
    /\ Returned
    /\ last.after_refresh
    /\ last.hit
    /\ last.src # disk
    /\ config_cache[last.filename] # ReadConfig(disk)
    /\ last.config = Update(config_cache[last.filename], last.options)

(***************************************************************************)
(* C9.  Every key of every mapping returned is lowercase, so two names     *)
(* that differ only in case, from the file or from an override, are one    *)
(* entry.                                                                  *)
(***************************************************************************)
C9_KeysAreLowercase == Returned => \A k \in Keys(last.config) : k = Lower(k)

(***************************************************************************)
(* The constructor (lines 148-180).                                        *)
(***************************************************************************)
rpcuser == <<"r", "p", "c", "u", "s", "e", "r">>
rpcpassword == <<"r", "p", "c", "p", "a", "s", "s", "w", "o", "r", "d">>
rpcserver == <<"r", "p", "c", "s", "e", "r", "v", "e", "r">>
rpcport == <<"r", "p", "c", "p", "o", "r", "t">>
rpctimeout == <<"r", "p", "c", "t", "i", "m", "e", "o", "u", "t">>
rpcssl == <<"r", "p", "c", "s", "s", "l">>

DefaultHost == <<"1", "2", "7", ".", "0", ".", "0", ".", "1">>
DefaultPort == 22461
DefaultTimeout == 30

Digits == <<"0", "1", "2", "3", "4", "5", "6", "7", "8", "9">>
IsDigit(c) == \E i \in 1..10 : Digits[i] = c
DigitValue(c) == (CHOOSE i \in 1..10 : Digits[i] = c) - 1

RECURSIVE DecimalValue(_)
DecimalValue(s) ==
    IF s = <<>> THEN 0
    ELSE 10 * DecimalValue(SubSeq(s, 1, Len(s) - 1)) + DigitValue(s[Len(s)])

\* int(s) of a str: whitespace around, an optional sign, then decimal digits
\* (ASCII digits without the underscore grouping)
ParseInt(s) ==
    LET t == Strip(s)
        signed == t # <<>> /\ t[1] \in {"+", "-"}
        digits == IF signed THEN Tail(t) ELSE t
    IN  IF digits # <<>> /\ \A i \in 1..Len(digits) : IsDigit(digits[i])
        THEN [ok |-> TRUE,
              value |-> IF signed /\ t[1] = "-" THEN 0 - DecimalValue(digits) ELSE DecimalValue(digits)]
        ELSE [ok |-> FALSE, value |-> 0]

\* int(config.get(key, default)): the default is a number already
IntOption(cfg, key, default) ==
    IF HasKey(cfg, key) THEN ParseInt(Get(cfg, key)) ELSE [ok |-> TRUE, value |-> default]

\* config.get('rpcssl', '').lower() in ('1', 'yes', 'true', 'y', 't')
SslRequested(cfg) ==
    Lower(GetDefault(cfg, rpcssl, <<>>))
        \in {<<"1">>, <<"y", "e", "s">>, <<"t", "r", "u", "e">>, <<"y">>, <<"t">>}

\* line 157 succeeds: both lookups find their key, the values being strings
HasCredentials(cfg) == HasKey(cfg, rpcuser) /\ HasKey(cfg, rpcpassword)

\* mutant: the host is looked up before the credentials are read
ConstructorError_HostCheckedFirst(cfg, resolves) ==
    IF ~resolves THEN "Invalid RPC server"
    ELSE IF ~HasCredentials(cfg) THEN "Unable to read RPC credentials"
    ELSE IF ~IntOption(cfg, rpcport, DefaultPort).ok \/ ~IntOption(cfg, rpctimeout, DefaultTimeout).ok
         THEN "Error parsing RPC connection information"
    ELSE ""

\* the message of the BeancashdException the constructor raises, "" when it
\* raises none; resolves is whether socket.gethostbyname finds the host
ConstructorError(cfg, resolves) ==
    IF ~HasCredentials(cfg) THEN "Unable to read RPC credentials"
    ELSE IF ~resolves THEN "Invalid RPC server"
    ELSE IF ~IntOption(cfg, rpcport, DefaultPort).ok \/ ~IntOption(cfg, rpctimeout, DefaultTimeout).ok
         THEN "Error parsing RPC connection information"
    ELSE ""

\* the instance a constructor that raises nothing leaves; the Basic token is
\* the base64 of user:password, kept here as the text it encodes
NewClient(cfg) ==
    [exists |-> TRUE,
     rpc_auth |-> Get(cfg, rpcuser) \o <<":">> \o Get(cfg, rpcpassword),
     rpc_host |-> GetDefault(cfg, rpcserver, DefaultHost),
     rpc_port |-> IntOption(cfg, rpcport, DefaultPort).value,
     timeout |-> IntOption(cfg, rpctimeout, DefaultTimeout).value,
     ssl |-> SslRequested(cfg),
     rpc_id |-> 0,
     issued |-> <<>>]

\* the configuration files and the options the constructor is run on
Line_rpcuser == rpcuser \o <<"=", "u">>
Line_rpcpassword == rpcpassword \o <<" ", "=", " ", "p">>
Line_rpcport == rpcport \o <<"=", "8", "0">>
ClientDiskContents ==
    {NoFile, File(<<Line_rpcuser, Line_rpcpassword>>), File(<<Line_rpcport, Line_rpcpassword>>)}

Option(k, v) == <<k, v>>
CtorOptions ==
    {<<>>,
     <<Option(rpcpassword, <<"p">>)>>,
     <<Option(<<"R", "P", "C", "U", "S", "E", "R">>, <<"u">>), Option(rpcpassword, <<"p">>)>>,
     <<Option(rpcuser, <<"u">>), Option(rpcssl, <<"Y">>), Option(rpcserver, <<"h">>)>>,
     <<Option(rpcuser, <<"u">>), Option(rpcport, <<"x">>)>>,
     <<Option(rpcuser, <<"u">>), Option(rpctimeout, <<>>)>>}

InitClient ==
    /\ disk \in ClientDiskContents
    /\ config_cache = <<>>
    /\ cache_by = <<>>
    /\ last = NoCall
    /\ LoopIdle
    /\ ClientIdle

\* Beancashd(config_filename, **config_options), while no instance exists yet;
\* resolves is the answer of socket.gethostbyname
Construct(filename, options, resolves) ==
    LET cfg == ParseConfig(filename, FALSE, options).config
        err == ConstructorError(cfg, resolves)
    IN  /\ ~client.exists
        /\ Resolve(filename, FALSE, options)
        /\ client' = IF err = "" THEN NewClient(cfg) ELSE client
        /\ event' = [op |-> "__init__", rpc_id |-> 0,
                     outcome |-> IF err = "" THEN "ok" ELSE "BeancashdException",
                     value |-> err, config |-> cfg, resolves |-> resolves,
                     transport |-> NoTransport]
        /\ UNCHANGED pvars

(***************************************************************************)
(* _rpc_call (lines 190-234).                                              *)
(***************************************************************************)
\* sample JSON values, written as their JSON text
JsonErrors == {"null", "\"\"", "\"boom\"", "{\"code\":-1}"}
JsonResults == {"null", "42"}
\* the JSON values Python takes for false
Falsy == {"null", "\"\"", "0", "false", "[]", "{}"}

\* the members of a decoded JSON object: any of "error" and "result"
JsonObjects ==
    UNION {{m \in [S -> JsonErrors \cup JsonResults] :
                /\ "error" \in S => m["error"] \in JsonErrors
                /\ "result" \in S => m["result"] \in JsonResults}
           : S \in SUBSET {"error", "result"}}

Transport(connect, response, status, body, type, members) ==
    [connect |-> connect, response |-> response, status |-> status, body |-> body,
     type |-> type, members |-> members]

\* what the network and the server may do with one call: the connection is
\* refused, no response arrives in time, getresponse() yields a false value,
\* or a response arrives: a status, and a body that is not UTF-8, not JSON,
\* or JSON of some type
Transports ==
    {Transport("refused", "none", 0, "none", "none", <<>>),
     Transport("ok", "timeout", 0, "none", "none", <<>>),
     Transport("ok", "falsy", 0, "none", "none", <<>>),
     Transport("ok", "ok", 500, "text", "none", <<>>),
     Transport("ok", "ok", 200, "undecodable", "none", <<>>),
     Transport("ok", "ok", 200, "text", "none", <<>>)}
    \cup {Transport("ok", "ok", 200, "json", t, <<>>) : t \in {"array", "null", "number", "string"}}
    \cup {Transport("ok", "ok", 200, "json", "object", m) : m \in JsonObjects}

Outcome(outcome, value) == [outcome |-> outcome, value |-> value]

\* lines 198-234: how the call ends, and with which value or message
RpcOutcome(t) ==
    IF t.connect = "refused" THEN Outcome("socket.error", "Connection refused")
    ELSE IF t.response = "timeout" THEN Outcome("socket.timeout", "timed out")
    ELSE IF t.response = "falsy" THEN Outcome("BeancashdException", "No response from Beancashd")
    ELSE IF t.status # 200 THEN Outcome("BeancashdException", "response from Beancashd")
    ELSE IF t.body = "undecodable" THEN Outcome("UnicodeDecodeError", "invalid start byte")
    ELSE IF t.body # "json" THEN Outcome("BeancashdException", "Error parsing Beancashd response")
    ELSE IF t.type # "object" THEN Outcome("AttributeError", "object has no attribute 'get'")
    ELSE IF "error" \in DOMAIN t.members /\ t.members["error"] \notin Falsy
         THEN Outcome("BeancashdException", t.members["error"])
    ELSE IF "result" \in DOMAIN t.members THEN Outcome("returned", t.members["result"])
    ELSE Outcome("BeancashdException", "Invalid response from Beancashd")

\* mutant: the id is incremented once the connection is open
AfterRpcCall_IncrementAfterConnect(cl, t) ==
    LET id == IF t.connect = "refused" THEN cl.rpc_id ELSE cl.rpc_id + 1
    IN  [cl EXCEPT !.rpc_id = id,
                   !.issued = Append(@, [id |-> id, raised |-> RpcOutcome(t).outcome # "returned"])]

\* the instance after a call: line 195 comes first, whatever follows.  issued
\* is the history of the calls: the id each carried and whether it raised
AfterRpcCall(cl, t) ==
    [cl EXCEPT !.rpc_id = @ + 1,
               !.issued = Append(@, [id |-> cl.rpc_id + 1,
                                     raised |-> RpcOutcome(t).outcome # "returned"])]

RpcCall(t) ==
    /\ client.exists
    /\ client.rpc_id < MaxCalls
    /\ client' = AfterRpcCall(client, t)
    /\ event' = [op |-> "_rpc_call", rpc_id |-> AfterRpcCall(client, t).rpc_id,
                 outcome |-> RpcOutcome(t).outcome, value |-> RpcOutcome(t).value,
                 config |-> <<>>, resolves |-> FALSE, transport |-> t]
    /\ UNCHANGED <<rvars, pvars>>

NextClient ==
    \/ \E o \in CtorOptions, resolves \in BOOLEAN : Construct(DEFAULT_CONFIG_FILENAME, o, resolves)
    \/ \E t \in Transports : RpcCall(t)

SpecClient == InitClient /\ [][NextClient]_vars

(***************************************************************************)
(* C1.  On one client the n-th call carries request id n, whether the      *)
(* calls before it returned or raised: the ids issued are 1, 2, 3, ... in  *)
(* order, none reused and none skipped.                                    *)
(***************************************************************************)
C1_RequestIdsCountTheCalls ==
    client.exists =>
        /\ client.rpc_id = Len(client.issued)
        /\ \A n \in 1..Len(client.issued) : client.issued[n].id = n
        /\ event.op = "_rpc_call" => event.rpc_id = Len(client.issued)

\* a third call that carries id 3 after a call that raised and one that returned,
\* and itself ends on a refused connection
C1_Witness ==
    /\ client.exists
    /\ Len(client.issued) = 3
    /\ client.issued[1].raised
    /\ ~client.issued[2].raised
    /\ event.op = "_rpc_call"
    /\ event.transport.connect = "refused"
    /\ event.rpc_id = 3

(***************************************************************************)
(* C3.  A call whose response has status 200 and a body that decodes as    *)
(* JSON ends, in this order: with a BeancashdException carrying the error  *)
(* when the decoded response has an error field that is neither null nor   *)
(* empty; else with the result returned when it has a result field; else   *)
(* with the BeancashdException "Invalid response from Beancashd".          *)
(***************************************************************************)
DecodedJson(t) == t.connect = "ok" /\ t.response = "ok" /\ t.status = 200 /\ t.body = "json"
HasField(t, name) == t.type = "object" /\ name \in DOMAIN t.members

C3_OutcomeOrder ==
    (event.op = "_rpc_call" /\ DecodedJson(event.transport)) =>
        IF /\ HasField(event.transport, "error")
           /\ event.transport.members["error"] \notin {"null", "\"\"", "[]", "{}"}
        THEN event.outcome = "BeancashdException" /\ event.value = event.transport.members["error"]
        ELSE IF HasField(event.transport, "result")
        THEN event.outcome = "returned" /\ event.value = event.transport.members["result"]
        ELSE event.outcome = "BeancashdException" /\ event.value = "Invalid response from Beancashd"

(***************************************************************************)
(* C4.  Every call on a constructed client returns a value or raises a     *)
(* BeancashdException, whatever the network and the server do: no other    *)
(* kind of error leaves _rpc_call.                                         *)
(***************************************************************************)
C4_OnlyBeancashdExceptionEscapes ==
    event.op = "_rpc_call" => event.outcome \in {"returned", "BeancashdException"}

(***************************************************************************)
(* C5.  The constructor raises BeancashdException ("Unable to read RPC     *)
(* credentials") whenever rpcuser or rpcpassword is absent from the        *)
(* resolved configuration, whatever the other keys; a constructor that     *)
(* raised leaves no client, and without a client no call is made; with     *)
(* both keys, a host that resolves and port and timeout that int() takes,  *)
(* the constructor succeeds and leaves a client that has issued no call.   *)
(***************************************************************************)
C5_ConstructionNeedsCredentials ==
    /\ event.op = "__init__" =>
          /\ (~HasKey(event.config, rpcuser) \/ ~HasKey(event.config, rpcpassword)) =>
                /\ event.outcome = "BeancashdException"
                /\ event.value = "Unable to read RPC credentials"
          /\ event.outcome = "BeancashdException" => ~client.exists
          /\ (/\ HasKey(event.config, rpcuser) /\ HasKey(event.config, rpcpassword)
              /\ event.resolves
              /\ IntOption(event.config, rpcport, DefaultPort).ok
              /\ IntOption(event.config, rpctimeout, DefaultTimeout).ok) =>
                /\ event.outcome = "ok"
                /\ client.exists /\ client.rpc_id = 0 /\ client.issued = <<>>
    /\ ~client.exists => event.op # "_rpc_call"

\* a constructor that raised for the missing rpcuser, with rpcpassword and
\* rpcport present and the host resolving
C5_Witness ==
    /\ event.op = "__init__"
    /\ event.outcome = "BeancashdException"
    /\ ~HasKey(event.config, rpcuser)
    /\ HasKey(event.config, rpcpassword)
    /\ HasKey(event.config, rpcport)
    /\ event.resolves
    /\ ~client.exists

====
